---- MODULE Spec2Model ----
(***************************************************************************)
(* Verification model of byre: the qBittorrent wrapper (byre/bt.py) and   *)
(* the listing extraction of the BYR PT site API (byre/api.py).            *)
(*                                                                         *)
(* Strings are sequences of one-character strings, so that formatting and  *)
(* parsing are computed character by character.  An optional value is a    *)
(* sequence of length at most one: None is << >>, a present x is << x >>.  *)
(***************************************************************************)
EXTENDS Integers, Sequences, FiniteSets, TLC

\* ------------------------------------------------------------------------
\* Bounds of the model
\* ------------------------------------------------------------------------
MaxNameLen == 6
MaxSeedId == 11
MaxTitleLen == 2
NumTorrents == 4
NumContents == 2
MaxLocal == 2
MaxRemote == 2
MaxLocalId == 2
MaxRemoteId == 1
MaxSignatures == 2
MaxRows == 3
MaxRowId == 1
MaxUploadedAt == 1
MaxRowsTwice == 2
MaxClock == 3
MaxRetries == 3
MaxCategories == 2
MaxUserId == 2
MaxCookie == 2
MaxVersionPart == 10
NumApis == 2
MaxCatCalls == 2

\* ------------------------------------------------------------------------
\* Generic helpers
\* ------------------------------------------------------------------------
None == << >>
Some(x) == << x >>

Range(s) == { s[i] : i \in DOMAIN s }

StringsUpTo(alphabet, n) == UNION { [1..k -> alphabet] : k \in 0..n }

\* ------------------------------------------------------------------------
\* Characters
\* ------------------------------------------------------------------------
DigitChars == << "0", "1", "2", "3", "4", "5", "6", "7", "8", "9" >>
Digits == Range(DigitChars)
\* the letters the model's names are written with
Letters == { "b", "t", "x" }
\* the characters the regular expression class \w accepts
WordChars == Letters \cup Digits \cup { "_" }

DigitVal(c) == CHOOSE i \in 0..9 : DigitChars[i + 1] = c

\* value of a non-empty run of decimal digits
RECURSIVE DigitsValue(_)
DigitsValue(s) ==
    IF Len(s) = 0 THEN 0
    ELSE 10 * DigitsValue(SubSeq(s, 1, Len(s) - 1)) + DigitVal(s[Len(s)])

\* Python's str(n) of an integer
RECURSIVE str(_)
str(n) ==
    IF n < 0 THEN << "-" >> \o str(0 - n)
    ELSE IF n < 10 THEN << DigitChars[n + 1] >>
    ELSE str(n \div 10) \o << DigitChars[(n % 10) + 1] >>

\* what Python's int(s) accepts: an optional sign and at least one digit
IsIntLiteral(s) ==
    LET body == IF Len(s) > 0 /\ s[1] \in { "-", "+" } THEN Tail(s) ELSE s
    IN  Len(body) > 0 /\ \A i \in DOMAIN body : body[i] \in Digits

\* utils.int_or(s, default): int(s), or the default when s is no integer
int_or(s, default) ==
    IF ~IsIntLiteral(s) THEN default
    ELSE IF s[1] = "-" THEN 0 - DigitsValue(Tail(s))
    ELSE IF s[1] = "+" THEN DigitsValue(Tail(s))
    ELSE DigitsValue(s)

\* length of the longest run of characters of class cls starting at name[i]
RECURSIVE Run(_, _, _)
Run(name, i, cls) ==
    IF i <= Len(name) /\ name[i] \in cls THEN 1 + Run(name, i + 1, cls) ELSE 0

CharAt(name, i) == IF i \in DOMAIN name THEN name[i] ELSE ""

\* re.match("^\\[(\\w+)-\\d+]", name): group(1) when it matches, else None
ReMatchTag(name) ==
    LET w == Run(name, 2, WordChars)
        d == Run(name, 3 + w, Digits)
    IN  IF /\ CharAt(name, 1) = "["
           /\ w >= 1
           /\ CharAt(name, 2 + w) = "-"
           /\ d >= 1
           /\ CharAt(name, 3 + w + d) = "]"
        THEN Some(SubSeq(name, 2, 1 + w))
        ELSE None

startswith(name, prefix) ==
    Len(name) >= Len(prefix) /\ SubSeq(name, 1, Len(prefix)) = prefix

\* name.index(c): position (1-based) of the first c, 0 when str.index raises
index(name, c) ==
    IF c \in Range(name)
    THEN CHOOSE i \in DOMAIN name : name[i] = c /\ \A j \in 1..(i - 1) : name[j] # c
    ELSE 0

\* ------------------------------------------------------------------------
\* BtClient.local_torrent_from and BtClient._generate_rename
\* ------------------------------------------------------------------------
ValueError == [kind |-> "ValueError", seed_id |-> 0, site |-> << >>]
LocalTorrent(seed_id, site) == [kind |-> "LocalTorrent", seed_id |-> seed_id, site |-> site]
NotCalled == [kind |-> "NotCalled", seed_id |-> 0, site |-> << >>]

\* the test that decides whether the parsed id is accepted
AcceptsSeedId(seed_id) == seed_id # 0

\* the index at which the id ends
IdEndLast(name) ==
    IF "]" \in Range(name)
    THEN CHOOSE i \in DOMAIN name : name[i] = "]" /\ \A j \in (i + 1)..Len(name) : name[j] # "]"
    ELSE 0
IdEnd(name) == index(name, "]")

local_torrent_from(name, siteArg) ==
    LET match == ReMatchTag(name)
    IN  IF siteArg = None /\ match = None THEN ValueError
        ELSE LET site == IF siteArg = None THEN match[1] ELSE siteArg[1]
                 prefix == << "[" >> \o site \o << "-" >>
             IN  IF ~startswith(name, prefix) THEN ValueError
                 ELSE IF IdEnd(name) = 0 THEN ValueError
                 ELSE LET seed_id == int_or(SubSeq(name, Len(prefix) + 1, IdEnd(name) - 1), 0)
                      IN  IF AcceptsSeedId(seed_id)
                          THEN LocalTorrent(seed_id, site)
                          ELSE ValueError

_generate_rename(info) ==
    << "[" >> \o info.site \o << "-" >> \o str(info.seed_id) \o << "]" >> \o info.title

\* ------------------------------------------------------------------------
\* State
\* ------------------------------------------------------------------------
VARIABLES
    name,        \* the name of the torrent handed to local_torrent_from
    siteArg,     \* its site argument (None or a site)
    identified,  \* what local_torrent_from returned or raised
    info,        \* the TorrentInfo handed to _generate_rename
    renamed,     \* the generated name (None before the call)
    reparsed,    \* local_torrent_from of the generated name: << site omitted, site given >>
    present,     \* hashes of the torrents the qBittorrent client holds
    content,     \* the files (content) each torrent seeds
    files,       \* the contents whose files are on disk
    rmPc,        \* "idle", "applying" (between two removals of a plan) or "sending" (inside remove_torrent)
    rmTorrent,   \* remove_torrent's torrent argument
    rmExtra,     \* remove_torrent's extra argument (None or a set of torrents)
    outbox,      \* the torrents_delete requests remove_torrent has still to send
    log,         \* the requests the client received since the last top-level call
    plan,        \* the removable list being applied (<< >> for a direct call)
    removable,   \* the part of the plan still to be applied
    duplicates,  \* the plan's duplicates mapping
    localTorrents,   \* the client's torrents as torrents_info lists them: hash, name, tags
    remote_torrents, \* the remote catalog handed to list_torrents
    listed,      \* the call of list_torrents made: its arguments and what it returned
    title_cell,  \* the selectors that find an element in the title cell of a row
    promotions,  \* what _extract_promotion_info returned (None before the call)
    rows,        \* the rows of the torrents.php table
    extracted,    \* what _extract_torrent_table returned or raised
    clock,       \* the time datetime.now() returns, in days
    extractedAgain,   \* what a second run of _extract_torrent_table on the same rows returned
    addArgs,     \* the arguments of add_torrent: info, download_dir, paused, exists
    added,        \* the torrents_add requests the client received
    getRetries,  \* the retries argument of ByrClient.get (None when no call is running)
    getI,        \* the loop variable i of ByrClient.get
    statuses,    \* the status codes of the responses to the requests sent, in order
    slept,       \* for every request, whether get waited the retry delay after it
    getOutcome,   \* "" while running, "returned" or "ConnectionError"
    clientCategories,  \* the categories of the client: name -> directory
    initialCategories, \* the categories the client had before any call
    catPc,       \* "idle" or "loop" (inside init_categories)
    existing,    \* init_categories' snapshot of the category names
    catDir,      \* init_categories' local variable download_dir
    catArgs,     \* the arguments init_categories was called with
    catPending,  \* the categories the loop has still to go through
    catLog,      \* the torrents_create_category calls of the running or last call
    catCalls,     \* the number of init_categories calls made
    accountId,   \* per ByrApi instance: the user id its client's front page links to
    userIds,     \* the _user_id attributes: the class's and each instance's own
    resolved,    \* per instance: the first non-zero id current_user_id returned
    lastCall,     \* the last current_user_id or user_info call and what it did
    username,    \* ByrClient.username
    cookie_file, \* the content of the cookie cache file, None when there is none
    session,     \* the session cookie of the client, 0 when it has none
    live,        \* the session cookies the site takes as logged in
    lastLogin,    \* the last login call and what it did
    appParts,    \* the version of the qBittorrent the client talks to: major, minor, patch
    appVersion,  \* client.app.version, the string qBittorrent reports for it
    gate         \* "none", or what BtClient(url) did: "constructed" or "ConnectionError"

nameVars == << name, siteArg, identified >>
renameVars == << info, renamed, reparsed >>
removeVars ==
    << present, content, files, rmPc, rmTorrent, rmExtra, outbox, log, plan, removable, duplicates >>
listVars == << localTorrents, remote_torrents, listed >>
promoVars == << title_cell, promotions >>
tableVars == << rows, extracted, clock, extractedAgain >>
addVars == << addArgs, added >>
getVars == << getRetries, getI, statuses, slept, getOutcome >>
versionVars == << appParts, appVersion, gate >>
loginVars == << username, cookie_file, session, live, lastLogin >>
userVars == << accountId, userIds, resolved, lastCall >>
catVars ==
    << clientCategories, initialCategories, catPc, existing, catDir, catArgs,
       catPending, catLog, catCalls >>
vars == << nameVars, renameVars, removeVars, listVars, promoVars, tableVars, addVars, getVars, catVars, userVars, loginVars, versionVars >>

IdleName == name = << >> /\ siteArg = None /\ identified = NotCalled
IdleRename ==
    /\ info = [site |-> << >>, seed_id |-> 0, title |-> << >>]
    /\ renamed = None
    /\ reparsed = << NotCalled, NotCalled >>

Torrents == 1..NumTorrents
Contents == 1..NumContents

IdleRemove ==
    /\ present = {}
    /\ content = [t \in Torrents |-> 1]
    /\ files = {}
    /\ rmPc = "idle"
    /\ rmTorrent = 0
    /\ rmExtra = None
    /\ outbox = << >>
    /\ log = << >>
    /\ plan = << >>
    /\ removable = << >>
    /\ duplicates = [t \in Torrents |-> {}]

NotListed ==
    [called |-> FALSE, wants_all |-> FALSE, site |-> None, raised |-> FALSE, torrents |-> << >>]

IdleList ==
    /\ localTorrents = << >>
    /\ remote_torrents = << >>
    /\ listed = NotListed

NotExtracted == [called |-> FALSE, raised |-> "", torrents |-> << >>, at |-> 0]

IdlePromo == title_cell = {} /\ promotions = None
IdleTable ==
    rows = << >> /\ extracted = NotExtracted /\ clock = 0 /\ extractedAgain = NotExtracted

\* a path is the sequence of its components; an absolute path starts with "/"
Root == << "/" >>
\* the working directory of the process
Cwd == << "/", "w" >>
\* the symbolic links of the file system: /l is a link to /d
Symlinks == (<< "/", "l" >> :> << "/", "d" >>)

\* add_torrent's exists argument: False, True or a LocalTorrent
ExistsFalse == [kind |-> "False", save_path |-> << >>]
ExistsTrue == [kind |-> "True", save_path |-> << >>]
ExistsLocal(save_path) == [kind |-> "LocalTorrent", save_path |-> save_path]

NoInfo == [site |-> << >>, seed_id |-> 0, title |-> << >>, category |-> "", second_category |-> ""]
IdleAdd ==
    /\ addArgs = [info |-> NoInfo, download_dir |-> << >>, paused |-> FALSE, exists |-> ExistsFalse]
    /\ added = << >>

IdleGet ==
    /\ getRetries = None
    /\ getI = 0
    /\ statuses = << >>
    /\ slept = << >>
    /\ getOutcome = ""

NoBar == [ranking_tag |-> FALSE, ranking |-> << >>, up_arrow |-> << >>,
          down_arrow |-> << >>, green |-> << >>]
\* ByrUser() with the four fields of the info bar at their defaults
ByrUser(user_id) ==
    [user_id |-> user_id, ranking |-> None, seeding |-> 0, downloading |-> 0,
     connectable |-> FALSE]
NoCall ==
    [op |-> "none", inst |-> 0, user_id |-> 0, page |-> NoBar, resolvedBefore |-> None,
     fetched |-> 0, current |-> 0, parsed |-> FALSE, raised |-> FALSE, user |-> ByrUser(0)]
IdleUser ==
    /\ accountId = << >>
    /\ userIds = << >>
    /\ resolved = << >>
    /\ lastCall = NoCall

NoResponse == [reachable |-> FALSE, status_code |-> 0, cookie |-> 0]
NoLogin ==
    [called |-> FALSE, cache |-> FALSE, response |-> NoResponse, fileBefore |-> None,
     liveBefore |-> {}, authorized |-> 0, wrote |-> 0, outcome |-> "none"]
IdleLogin ==
    /\ username = ""
    /\ cookie_file = None
    /\ session = 0
    /\ live = {}
    /\ lastLogin = NoLogin

IdleVersion ==
    /\ appParts = << >>
    /\ appVersion = << >>
    /\ gate = "none"

IdleCat ==
    /\ clientCategories = << >>
    /\ initialCategories = << >>
    /\ catPc = "idle"
    /\ existing = {}
    /\ catDir = << >>
    /\ catArgs = [download_dir |-> << >>, categories |-> << >>]
    /\ catPending = << >>
    /\ catLog = << >>
    /\ catCalls = 0

\* what the operations of one part of the program leave alone, and the state
\* of the parts a specification does not exercise
OthersNameUnchanged == UNCHANGED << renameVars, removeVars, listVars, promoVars, tableVars, addVars, getVars, catVars, userVars, loginVars, versionVars >>
OthersNameIdle == IdleRename /\ IdleRemove /\ IdleList /\ IdlePromo /\ IdleTable /\ IdleAdd /\ IdleGet /\ IdleCat /\ IdleUser /\ IdleLogin /\ IdleVersion
OthersRenameUnchanged == UNCHANGED << nameVars, removeVars, listVars, promoVars, tableVars, addVars, getVars, catVars, userVars, loginVars, versionVars >>
OthersRenameIdle == IdleName /\ IdleRemove /\ IdleList /\ IdlePromo /\ IdleTable /\ IdleAdd /\ IdleGet /\ IdleCat /\ IdleUser /\ IdleLogin /\ IdleVersion
OthersRemoveUnchanged == UNCHANGED << nameVars, renameVars, listVars, promoVars, tableVars, addVars, getVars, catVars, userVars, loginVars, versionVars >>
OthersRemoveIdle == IdleName /\ IdleRename /\ IdleList /\ IdlePromo /\ IdleTable /\ IdleAdd /\ IdleGet /\ IdleCat /\ IdleUser /\ IdleLogin /\ IdleVersion
OthersListUnchanged == UNCHANGED << nameVars, renameVars, removeVars, promoVars, tableVars, addVars, getVars, catVars, userVars, loginVars, versionVars >>
OthersListIdle == IdleName /\ IdleRename /\ IdleRemove /\ IdlePromo /\ IdleTable /\ IdleAdd /\ IdleGet /\ IdleCat /\ IdleUser /\ IdleLogin /\ IdleVersion
OthersPromoUnchanged == UNCHANGED << nameVars, renameVars, removeVars, listVars, tableVars, addVars, getVars, catVars, userVars, loginVars, versionVars >>
OthersPromoIdle == IdleName /\ IdleRename /\ IdleRemove /\ IdleList /\ IdleTable /\ IdleAdd /\ IdleGet /\ IdleCat /\ IdleUser /\ IdleLogin /\ IdleVersion
OthersTableUnchanged == UNCHANGED << nameVars, renameVars, removeVars, listVars, promoVars, addVars, getVars, catVars, userVars, loginVars, versionVars >>
OthersTableIdle == IdleName /\ IdleRename /\ IdleRemove /\ IdleList /\ IdlePromo /\ IdleAdd /\ IdleGet /\ IdleCat /\ IdleUser /\ IdleLogin /\ IdleVersion
OthersAddUnchanged == UNCHANGED << nameVars, renameVars, removeVars, listVars, promoVars, tableVars, getVars, catVars, userVars, loginVars, versionVars >>
OthersAddIdle == IdleName /\ IdleRename /\ IdleRemove /\ IdleList /\ IdlePromo /\ IdleTable /\ IdleGet /\ IdleCat /\ IdleUser /\ IdleLogin /\ IdleVersion
OthersGetUnchanged == UNCHANGED << nameVars, renameVars, removeVars, listVars, promoVars, tableVars, addVars, catVars, userVars, loginVars, versionVars >>
OthersGetIdle == IdleName /\ IdleRename /\ IdleRemove /\ IdleList /\ IdlePromo /\ IdleTable /\ IdleAdd /\ IdleCat /\ IdleUser /\ IdleLogin /\ IdleVersion
OthersCatUnchanged == UNCHANGED << nameVars, renameVars, removeVars, listVars, promoVars, tableVars, addVars, getVars, userVars, loginVars, versionVars >>
OthersCatIdle == IdleName /\ IdleRename /\ IdleRemove /\ IdleList /\ IdlePromo /\ IdleTable /\ IdleAdd /\ IdleGet /\ IdleUser /\ IdleLogin /\ IdleVersion
OthersUserUnchanged == UNCHANGED << nameVars, renameVars, removeVars, listVars, promoVars, tableVars, addVars, getVars, catVars, loginVars, versionVars >>
OthersUserIdle == IdleName /\ IdleRename /\ IdleRemove /\ IdleList /\ IdlePromo /\ IdleTable /\ IdleAdd /\ IdleGet /\ IdleCat /\ IdleLogin /\ IdleVersion
OthersLoginUnchanged == UNCHANGED << nameVars, renameVars, removeVars, listVars, promoVars, tableVars, addVars, getVars, catVars, userVars, versionVars >>
OthersLoginIdle == IdleName /\ IdleRename /\ IdleRemove /\ IdleList /\ IdlePromo /\ IdleTable /\ IdleAdd /\ IdleGet /\ IdleCat /\ IdleUser /\ IdleVersion
OthersVersionUnchanged == UNCHANGED << nameVars, renameVars, removeVars, listVars, promoVars, tableVars, addVars, getVars, catVars, userVars, loginVars >>
OthersVersionIdle == IdleName /\ IdleRename /\ IdleRemove /\ IdleList /\ IdlePromo /\ IdleTable /\ IdleAdd /\ IdleGet /\ IdleCat /\ IdleUser /\ IdleLogin

\* ------------------------------------------------------------------------
\* Specification SpecName: local_torrent_from on every short name
\* ------------------------------------------------------------------------
NameAlphabet == { "[", "]", "-", "b", "0", "1" }
Names == StringsUpTo(NameAlphabet, MaxNameLen)
SiteArgs == { None, Some(<< "b" >>) }

InitName ==
    /\ name \in Names
    /\ siteArg \in SiteArgs
    /\ identified = NotCalled
    /\ OthersNameIdle

Identify ==
    /\ identified = NotCalled
    /\ identified' = local_torrent_from(name, siteArg)
    /\ UNCHANGED << name, siteArg >>
    /\ OthersNameUnchanged

NextName == Identify
SpecName == InitName /\ [][NextName]_vars

\* ------------------------------------------------------------------------
\* Specification SpecRename: _generate_rename followed by local_torrent_from
\* ------------------------------------------------------------------------
TitleAlphabet == { "[", "]", "-", "b", "1", " " }
SiteTokens == { << "b" >>, << "b", "1" >>, << "1" >>, << "t", "x" >> }
TorrentInfos ==
    [site : SiteTokens, seed_id : 1..MaxSeedId, title : StringsUpTo(TitleAlphabet, MaxTitleLen)]

InitRename ==
    /\ info \in TorrentInfos
    /\ renamed = None
    /\ reparsed = << NotCalled, NotCalled >>
    /\ OthersRenameIdle

Rename ==
    /\ renamed = None
    /\ renamed' = Some(_generate_rename(info))
    /\ UNCHANGED << info, reparsed >>
    /\ OthersRenameUnchanged

Reparse ==
    /\ renamed # None
    /\ reparsed = << NotCalled, NotCalled >>
    /\ reparsed' = << local_torrent_from(renamed[1], None),
                      local_torrent_from(renamed[1], Some(info.site)) >>
    /\ UNCHANGED << info, renamed >>
    /\ OthersRenameUnchanged

NextRename == Rename \/ Reparse
SpecRename == InitRename /\ [][NextRename]_vars

\* ------------------------------------------------------------------------
\* Specification SpecRemove: BtClient.remove_torrent against the client
\* ------------------------------------------------------------------------
Request(delete_files, hashes) == [delete_files |-> delete_files, torrent_hashes |-> hashes]

\* remove_torrent with the two requests sent in the opposite order
RemoveRequestsMainFirst(torrent, extra) ==
    << Request(TRUE, { torrent }) >>
        \o (IF extra # None THEN << Request(FALSE, extra[1]) >> ELSE << >>)
\* remove_torrent deleting the files with the extra torrents too
RemoveRequestsDeleteAll(torrent, extra) ==
    (IF extra # None THEN << Request(TRUE, extra[1]) >> ELSE << >>)
        \o << Request(TRUE, { torrent }) >>
\* the torrents_delete requests remove_torrent sends, in order
RemoveRequests(torrent, extra) ==
    (IF extra # None THEN << Request(FALSE, extra[1]) >> ELSE << >>)
        \o << Request(TRUE, { torrent }) >>

\* the torrents of the client that seed the same content as t
Siblings(t, local) == { u \in local \ { t } : content[u] = content[t] }

\* all lists without repetition over the set S, of length 1..Cardinality(S)
RECURSIVE ListsOver(_)
ListsOver(S) ==
    { << >> } \cup UNION { { << t >> \o l : l \in ListsOver(S \ { t }) } : t \in S }

InitRemove ==
    /\ content \in [Torrents -> Contents]
    /\ present = Torrents
    /\ files = { content[t] : t \in Torrents }
    /\ rmPc = "idle"
    /\ rmTorrent = 0
    /\ rmExtra = None
    /\ outbox = << >>
    /\ log = << >>
    /\ plan = << >>
    /\ removable = << >>
    /\ duplicates = [t \in Torrents |-> {}]
    /\ OthersRemoveIdle

\* a direct call remove_torrent(torrent, extra) on a listed torrent
RemoveTorrent ==
    /\ rmPc = "idle"
    /\ \E t \in present :
         \E extra \in { None } \cup { Some(S) : S \in SUBSET (present \ { t }) } :
            /\ rmTorrent' = t
            /\ rmExtra' = extra
            /\ outbox' = RemoveRequests(t, extra)
    /\ rmPc' = "sending"
    /\ log' = << >>
    /\ plan' = << >>
    /\ UNCHANGED << present, content, files, removable, duplicates >>
    /\ OthersRemoveUnchanged

\* the caller takes a list of removable torrents and, for each, the other
\* local torrents that share its files
ApplyChanges ==
    /\ rmPc = "idle"
    /\ \E l \in ListsOver(present) \ { << >> } :
         /\ plan' = l
         /\ removable' = l
    /\ duplicates' = [t \in Torrents |-> IF t \in present THEN Siblings(t, present) ELSE {}]
    /\ rmPc' = "applying"
    /\ log' = << >>
    /\ UNCHANGED << present, content, files, rmTorrent, rmExtra, outbox >>
    /\ OthersRemoveUnchanged

\* ... and calls remove_torrent(t, duplicates[t.torrent.hash]) for the next one
ApplyNext ==
    /\ rmPc = "applying"
    /\ removable # << >>
    /\ rmTorrent' = Head(removable)
    /\ rmExtra' = Some(duplicates[Head(removable)])
    /\ outbox' = RemoveRequests(Head(removable), Some(duplicates[Head(removable)]))
    /\ removable' = Tail(removable)
    /\ rmPc' = "sending"
    /\ UNCHANGED << present, content, files, log, plan, duplicates >>
    /\ OthersRemoveUnchanged

\* the client serves one torrents_delete request of remove_torrent
TorrentsDelete ==
    /\ rmPc = "sending"
    /\ outbox # << >>
    /\ LET req == Head(outbox)
           removed == req.torrent_hashes \cap present
       IN  /\ present' = present \ req.torrent_hashes
           /\ files' = IF req.delete_files
                       THEN files \ { content[h] : h \in removed }
                       ELSE files
           /\ log' = Append(log, [delete_files |-> req.delete_files,
                                  torrent_hashes |-> req.torrent_hashes,
                                  present |-> present,
                                  torrent |-> rmTorrent,
                                  extra |-> rmExtra])
    /\ outbox' = Tail(outbox)
    /\ rmPc' = IF Tail(outbox) # << >> THEN "sending"
               ELSE IF removable # << >> THEN "applying"
               ELSE "idle"
    /\ UNCHANGED << content, rmTorrent, rmExtra, plan, removable, duplicates >>
    /\ OthersRemoveUnchanged

NextRemove == RemoveTorrent \/ ApplyChanges \/ ApplyNext \/ TorrentsDelete
SpecRemove == InitRemove /\ [][NextRemove]_vars

\* ------------------------------------------------------------------------
\* C1, C2, C3
\* ------------------------------------------------------------------------
NonEmptyExtra(e) == e.extra # None /\ e.extra[1] # {}

\* C1: with a non-empty extra, the client receives the removal of all extra
\* torrents with delete_files=False strictly before the removal of torrent
\* with delete_files=True, and no file-deleting removal is received while a
\* torrent of extra is still in the client.
C1_ExtraRemovedFirst ==
    \A i \in DOMAIN log :
        (log[i].delete_files /\ NonEmptyExtra(log[i])) =>
            /\ log[i].torrent_hashes = { log[i].torrent }
            /\ log[i].extra[1] \cap log[i].present = {}
            /\ i > 1
            /\ ~log[i - 1].delete_files
            /\ log[i - 1].torrent_hashes = log[i].extra[1]
            /\ log[i - 1].torrent = log[i].torrent

C1_Witness ==
    /\ rmPc = "idle"
    /\ plan = << >>
    /\ Len(log) = 2
    /\ log[2].delete_files
    /\ Cardinality(log[2].extra[1]) = 2
    /\ log[2].extra[1] \subseteq log[1].present

\* the requests of the log sent with delete_files = d
RequestsWith(d) == { i \in DOMAIN log : log[i].delete_files = d }

RECURSIVE SumOver(_, _)
SumOver(S, f) ==
    IF S = {} THEN 0
    ELSE LET i == CHOOSE j \in S : TRUE IN f[i] + SumOver(S \ { i }, f)

\* how many removals of single torrents were issued with delete_files = d
NumIssued(d) ==
    SumOver(RequestsWith(d), [i \in DOMAIN log |-> Cardinality(log[i].torrent_hashes)])
\* how many torrents left the client through a request with delete_files = d
NumRemoved(d) ==
    SumOver(RequestsWith(d),
            [i \in DOMAIN log |-> Cardinality(log[i].torrent_hashes \cap log[i].present)])

\* three torrents sharing one content, all of them removable, each with the
\* other two as its duplicates, and the whole plan has been applied
ThreeSiblingsApplied ==
    /\ rmPc = "idle"
    /\ Len(plan) = 3
    /\ \A i, j \in DOMAIN plan : content[plan[i]] = content[plan[j]]
    /\ \A i \in DOMAIN plan : duplicates[plan[i]] = Range(plan) \ { plan[i] }

C3_NoRequestCoversTwoSiblings ==
    \A i \in DOMAIN log :
        \A t, u \in log[i].torrent_hashes : content[t] = content[u] => t = u

\* C3 amended: only the file-deleting removal is linearized: a request with
\* delete_files=True covers exactly the one torrent being removed, and the
\* torrents of extra are all covered by one request with delete_files=False.
C3_OnlyDeletingRequestIsSingle ==
    \A i \in DOMAIN log :
        /\ log[i].delete_files => log[i].torrent_hashes = { log[i].torrent }
        /\ ~log[i].delete_files =>
              /\ log[i].extra # None
              /\ log[i].torrent_hashes = log[i].extra[1]

C3_Witness ==
    \E i \in DOMAIN log :
        /\ ~log[i].delete_files
        /\ \E t, u \in log[i].torrent_hashes : t # u /\ content[t] = content[u]
        /\ i < Len(log)

\* ------------------------------------------------------------------------
\* Specification SpecList: BtClient.list_torrents
\* ------------------------------------------------------------------------
\* byre.clients.SITES.keys(), in the order of the dict
SITES == << << "b" >>, << "t" >> >>

SeqsUpTo(S, n) == UNION { [1..k -> S] : k \in 0..n }

\* a dict built from (key, value) pairs keeping the first value of a key
RECURSIVE dictFirstWins(_)
dictFirstWins(pairs) ==
    IF pairs = << >> THEN << >>
    ELSE dictFirstWins(SubSeq(pairs, 1, Len(pairs) - 1))
            @@ (pairs[Len(pairs)][1] :> pairs[Len(pairs)][2])
\* Python's dict(pairs): a later pair replaces an earlier one of the same key
RECURSIVE dict(_)
dict(pairs) ==
    IF pairs = << >> THEN << >>
    ELSE (pairs[Len(pairs)][1] :> pairs[Len(pairs)][2])
            @@ dict(SubSeq(pairs, 1, Len(pairs) - 1))

\* mapping.get(key, None)
get(mapping, key) == IF key \in DOMAIN mapping THEN Some(mapping[key]) ELSE None

\* the filter of the remote records that go into remote_mapping
OfAnySite(t, site) == TRUE
OfSite(t, site) == t.site = site

RECURSIVE Pairs(_)
Pairs(ts) == IF ts = << >> THEN << >> ELSE << << Head(ts).seed_id, Head(ts) >> >> \o Pairs(Tail(ts))

\* t for t in remote_torrents if t.site == site
RECURSIVE RemoteOfSite(_, _)
RemoteOfSite(remote, site) ==
    IF remote = << >> THEN << >>
    ELSE (IF OfSite(Head(remote), site) THEN << Head(remote) >> ELSE << >>)
            \o RemoteOfSite(Tail(remote), site)

remote_mapping(remote, site) == dict(Pairs(RemoteOfSite(remote, site)))

\* self.client.torrents_info(tag=site)
HasTag(torrent, site) == site \in torrent.tags
RECURSIVE torrents_info(_, _)
torrents_info(local, site) ==
    IF local = << >> THEN << >>
    ELSE (IF HasTag(Head(local), site) THEN << Head(local) >> ELSE << >>)
            \o torrents_info(Tail(local), site)

\* the except clause of the loop catches ...
ExceptNothing(kind) == FALSE
ExceptValueError(kind) == kind = "ValueError"

Listing(raised, torrents) == [raised |-> raised, torrents |-> torrents]
Entry(torrent, seed_id, site, i) ==
    [hash |-> torrent.hash, seed_id |-> seed_id, site |-> site, info |-> i]

\* the loop of list_torrents over the torrents of one site
RECURSIVE ListLoop(_, _, _, _)
ListLoop(ts, mapping, wants_all, site) ==
    IF ts = << >> THEN Listing(FALSE, << >>)
    ELSE LET torrent == Head(ts)
             local == local_torrent_from(torrent.name, Some(site))
             rest == ListLoop(Tail(ts), mapping, wants_all, site)
         IN  IF local.kind = "LocalTorrent"
             THEN Listing(rest.raised,
                          << Entry(torrent, local.seed_id, local.site, get(mapping, local.seed_id)) >>
                              \o rest.torrents)
             ELSE IF ExceptValueError(local.kind)
             THEN Listing(rest.raised,
                          (IF wants_all THEN << Entry(torrent, 0, site, None) >> ELSE << >>)
                              \o rest.torrents)
             ELSE Listing(TRUE, << >>)

RECURSIVE Gather(_, _, _, _)
Gather(sites, local, remote, wants_all) ==
    IF sites = << >> THEN Listing(FALSE, << >>)
    ELSE LET first == ListLoop(torrents_info(local, Head(sites)),
                               remote_mapping(remote, Head(sites)), wants_all, Head(sites))
             rest == Gather(Tail(sites), local, remote, wants_all)
         IN  IF first.raised THEN Listing(TRUE, << >>)
             ELSE Listing(rest.raised, first.torrents \o rest.torrents)

list_torrents(local, remote, wants_all, site) ==
    LET r == IF site = None
             THEN Gather(SITES, local, remote, wants_all)
             ELSE ListLoop(torrents_info(local, site[1]),
                           remote_mapping(remote, site[1]), wants_all, site[1])
    IN  IF r.raised THEN Listing(TRUE, << >>) ELSE r

\* the names the client's torrents carry: renamed ones and others
OtherNames ==
    { << "x" >>, << "[", "b", "-", "0", "]", "x" >>, << "[", "b", "-", "-", "1", "]" >> }
LocalNames ==
    { _generate_rename([site |-> s, seed_id |-> i, title |-> << "x" >>]) :
        s \in Range(SITES), i \in 1..MaxLocalId } \cup OtherNames
RemoteInfos == [site : Range(SITES), seed_id : 1..MaxRemoteId, title : { << "x" >>, << "y" >> }]
TagSets == SUBSET Range(SITES) \ { {} }

InitList ==
    /\ \E ts \in SeqsUpTo(LocalNames \X TagSets, MaxLocal) :
         localTorrents = [i \in DOMAIN ts |-> [hash |-> i, name |-> ts[i][1], tags |-> ts[i][2]]]
    /\ remote_torrents \in SeqsUpTo(RemoteInfos, MaxRemote)
    /\ listed = NotListed
    /\ OthersListIdle

ListTorrents ==
    /\ ~listed.called
    /\ \E wants_all \in BOOLEAN, site \in { None } \cup { Some(s) : s \in Range(SITES) } :
         LET r == list_torrents(localTorrents, remote_torrents, wants_all, site)
         IN  listed' = [called |-> TRUE, wants_all |-> wants_all, site |-> site,
                        raised |-> r.raised, torrents |-> r.torrents]
    /\ UNCHANGED << localTorrents, remote_torrents >>
    /\ OthersListUnchanged

NextList == ListTorrents
SpecList == InitList /\ [][NextList]_vars

\* ------------------------------------------------------------------------
\* C6, C7, C8
\* ------------------------------------------------------------------------
\* positions of the catalog records with the site and id of the entry e
Matches(e) ==
    { i \in DOMAIN remote_torrents :
        remote_torrents[i].site = e.site /\ remote_torrents[i].seed_id = e.seed_id }
Min(S) == CHOOSE i \in S : \A j \in S : i <= j
Max(S) == CHOOSE i \in S : \A j \in S : i >= j

\* C6 as stated: of several catalog records with the same (site, seed_id),
\* the first one is attached to the matching local torrent.
C6_FirstOccurrenceWins ==
    \A k \in DOMAIN listed.torrents :
        LET e == listed.torrents[k]
        IN  e.info # None => e.info[1] = remote_torrents[Min(Matches(e))]

\* C6 amended: the last one is attached.
C6_LastOccurrenceWins ==
    \A k \in DOMAIN listed.torrents :
        LET e == listed.torrents[k]
        IN  /\ e.info # None => Matches(e) # {} /\ e.info[1] = remote_torrents[Max(Matches(e))]
            /\ (e.seed_id # 0 /\ Matches(e) # {}) => e.info # None

C6_Witness ==
    \E k \in DOMAIN listed.torrents :
        LET e == listed.torrents[k]
        IN  /\ e.info # None
            /\ Cardinality(Matches(e)) >= 2
            /\ remote_torrents[Min(Matches(e))] # remote_torrents[Max(Matches(e))]

\* C7: info is set exactly when the catalog has a record with the site and
\* seed_id of the local torrent, and then it is a record of that site and id.
C7_InfoMatchesSiteAndId ==
    listed.called =>
        \A k \in DOMAIN listed.torrents :
            LET e == listed.torrents[k]
            IN  /\ e.info # None <=> Matches(e) # {}
                /\ e.info # None =>
                      /\ e.info[1].site = e.site
                      /\ e.info[1].seed_id = e.seed_id
                      /\ e.info[1] \in Range(remote_torrents)

C7_Witness ==
    /\ listed.called
    /\ \E k, l \in DOMAIN listed.torrents :
          /\ listed.torrents[k].info # None
          /\ listed.torrents[l].info = None
          /\ listed.torrents[l].seed_id # 0
          /\ \E i \in DOMAIN remote_torrents :
                /\ remote_torrents[i].seed_id = listed.torrents[l].seed_id
                /\ remote_torrents[i].site # listed.torrents[l].site

\* the sites a call of list_torrents goes through
ListedSites == IF listed.site = None THEN Range(SITES) ELSE { listed.site[1] }
\* the entries of the result for the torrent of hash h under the site s
EntriesOf(h, s) ==
    { k \in DOMAIN listed.torrents :
        listed.torrents[k].hash = h /\ listed.torrents[k].site = s }
Recognized(t, s) == local_torrent_from(t.name, Some(s)).kind = "LocalTorrent"

\* C8: an unrecognized name never aborts list_torrents: every recognized
\* torrent is returned, an unrecognized one is omitted (wants_all false) or
\* kept as an untracked entry with seed_id = 0 and info = None (wants_all true).
C8_UnrecognizedNeverAborts ==
    listed.called =>
        /\ ~listed.raised
        /\ \A s \in ListedSites : \A i \in DOMAIN localTorrents :
              LET t == localTorrents[i]
                  es == EntriesOf(t.hash, s)
              IN  IF s \notin t.tags THEN es = {}
                  ELSE IF Recognized(t, s)
                  THEN /\ Cardinality(es) = 1
                       /\ \A k \in es : listed.torrents[k].seed_id # 0
                  ELSE IF listed.wants_all
                  THEN /\ Cardinality(es) = 1
                       /\ \A k \in es : listed.torrents[k].seed_id = 0
                                        /\ listed.torrents[k].info = None
                  ELSE es = {}

C8_Witness ==
    /\ listed.called
    /\ ~listed.wants_all
    /\ Len(listed.torrents) >= 1
    /\ \E i \in DOMAIN localTorrents : \E s \in ListedSites :
          /\ s \in localTorrents[i].tags
          /\ ~Recognized(localTorrents[i], s)
          /\ localTorrents[i].name[1] = "["
          /\ i < Len(localTorrents)

\* ------------------------------------------------------------------------
\* Specification SpecPromo: ByrApi._extract_promotion_info
\* ------------------------------------------------------------------------
PROMOTION_FREE == "free"
PROMOTION_TWO_UP == "twoup"
PROMOTION_HALF_DOWN == "halfdown"
PROMOTION_THIRTY_DOWN == "thirtydown"

Selector(selector, flags) == [selector |-> selector, promotions |-> flags]

\* the selectors dict, in its insertion order
selectors == <<
    Selector("tr.free_bg", << PROMOTION_FREE >>),
    Selector("tr.twoup_bg", << PROMOTION_TWO_UP >>),
    Selector("tr.twoupfree_bg", << PROMOTION_FREE, PROMOTION_TWO_UP >>),
    Selector("tr.halfdown_bg", << PROMOTION_HALF_DOWN >>),
    Selector("tr.twouphalfdown_bg", << PROMOTION_HALF_DOWN, PROMOTION_TWO_UP >>),
    Selector("tr.thirtypercentdown_bg", << PROMOTION_THIRTY_DOWN >>),
    Selector("font.free", << PROMOTION_FREE >>),
    Selector("font.twoup", << PROMOTION_TWO_UP >>),
    Selector("font.twoupfree", << PROMOTION_FREE, PROMOTION_TWO_UP >>),
    Selector("font.halfdown", << PROMOTION_HALF_DOWN >>),
    Selector("font.twouphalfdown", << PROMOTION_HALF_DOWN, PROMOTION_TWO_UP >>),
    Selector("font.thirtypercent", << PROMOTION_THIRTY_DOWN >>),
    Selector("img.pro_free", << PROMOTION_FREE >>),
    Selector("img.pro_2up", << PROMOTION_TWO_UP >>),
    Selector("img.pro_free2up", << PROMOTION_FREE, PROMOTION_TWO_UP >>),
    Selector("img.pro_50pctdown", << PROMOTION_HALF_DOWN >>),
    Selector("img.pro_50pctdown2up", << PROMOTION_HALF_DOWN, PROMOTION_TWO_UP >>),
    Selector("img.pro_30pctdown", << PROMOTION_THIRTY_DOWN >>) >>

\* title_cell.select_one(selector) is not None
select_one(cell, selector) == selector \in cell

\* the loop over selectors.items(), returning at the first match
RECURSIVE PromotionLoop(_, _)
PromotionLoop(items, cell) ==
    IF items = << >> THEN << >>
    ELSE IF select_one(cell, Head(items).selector) THEN Head(items).promotions
    ELSE PromotionLoop(Tail(items), cell)

\* the loop collecting the flags of every match
RECURSIVE PromotionLoopAll(_, _)
PromotionLoopAll(items, cell) ==
    IF items = << >> THEN << >>
    ELSE (IF select_one(cell, Head(items).selector) THEN Head(items).promotions ELSE << >>)
            \o PromotionLoopAll(Tail(items), cell)

_extract_promotion_info_all(cell) == PromotionLoopAll(selectors, cell)
_extract_promotion_info(cell) == PromotionLoop(selectors, cell)

SelectorNames == { selectors[i].selector : i \in DOMAIN selectors }

InitPromo ==
    /\ title_cell \in { c \in SUBSET SelectorNames : Cardinality(c) <= MaxSignatures }
    /\ promotions = None
    /\ OthersPromoIdle

ExtractPromotionInfo ==
    /\ promotions = None
    /\ promotions' = Some(_extract_promotion_info(title_cell))
    /\ UNCHANGED title_cell
    /\ OthersPromoUnchanged

NextPromo == ExtractPromotionInfo
SpecPromo == InitPromo /\ [][NextPromo]_vars

\* positions in the table of the signatures present in the cell
Present(cell) == { i \in DOMAIN selectors : selectors[i].selector \in cell }

\* C9: the result is the flag list of the first table entry whose signature
\* is in the title cell, the empty list when there is none; with two
\* signatures present only the earlier entry's flags are returned.
C9_FirstSignatureWins ==
    promotions # None =>
        IF Present(title_cell) = {} THEN promotions[1] = << >>
        ELSE promotions[1] = selectors[Min(Present(title_cell))].promotions

C9_Witness ==
    /\ promotions # None
    /\ "tr.twoup_bg" \in title_cell
    /\ "img.pro_free" \in title_cell
    /\ promotions[1] = << PROMOTION_TWO_UP >>

\* ------------------------------------------------------------------------
\* Specification SpecTable: ByrApi._extract_torrent_table
\* ------------------------------------------------------------------------
\* A row is the markup the extraction looks up, in the order of the code:
\*   img   the category icon of cells[0]: "ok" or "missing" (select_one is None)
\*   span  the time of cells[3]: "ok", "missing" or "bad_iso" (title is no ISO date)
\*   link  the details link of cells[1]: "ok" or "missing"
\*   id    the id of the details link
\*   uploaded_at  the date the title of the span holds when it is an ISO date, in days
Rows == [img : { "ok", "missing" }, span : { "ok", "missing", "bad_iso" },
         link : { "ok", "missing" }, id : 1..MaxRowId, uploaded_at : 0..MaxUploadedAt]

\* the extraction of one row: the exception it raises ("" for none)
RowError(row) ==
    IF row.img = "missing" THEN "AttributeError"
    ELSE IF row.span = "missing" THEN "AttributeError"
    ELSE IF row.span = "bad_iso" THEN "ValueError"
    ELSE IF row.link = "missing" THEN "AttributeError"
    ELSE ""

\* the TorrentInfo of a row
\* the TorrentInfo of a row, its live_time taken from a fixed date
TorrentInfoSinceEpoch(row) == [seed_id |-> row.id, live_time |-> 0 - row.uploaded_at]
\* live_time is (datetime.now() - uploaded_at) in days
TorrentInfoOf(row) == [seed_id |-> row.id, live_time |-> clock - row.uploaded_at]

\* the outcome of a run, and the time of the run
Extracted(raised, torrents) ==
    [called |-> TRUE, raised |-> raised, torrents |-> torrents, at |-> clock]

\* the loop over the rows: an exception of a row leaves the function
RECURSIVE TableLoop(_, _)
TableLoop(rs, torrents) ==
    IF rs = << >> THEN Extracted("", torrents)
    ELSE IF RowError(Head(rs)) # "" THEN Extracted(RowError(Head(rs)), << >>)
    ELSE TableLoop(Tail(rs), Append(torrents, TorrentInfoOf(Head(rs))))

_extract_torrent_table(rs) == TableLoop(rs, << >>)

InitTable ==
    /\ rows \in SeqsUpTo(Rows, MaxRows)
    /\ extracted = NotExtracted
    /\ clock = MaxUploadedAt
    /\ extractedAgain = NotExtracted
    /\ OthersTableIdle

ExtractTorrentTable ==
    /\ ~extracted.called
    /\ extracted' = _extract_torrent_table(rows)
    /\ UNCHANGED << rows, clock, extractedAgain >>
    /\ OthersTableUnchanged

NextTable == ExtractTorrentTable
SpecTable == InitTable /\ [][NextTable]_vars

\* ------------------------------------------------------------------------
\* Specification SpecTableTwice: two runs of _extract_torrent_table on the
\* same rows, time passing in between
\* ------------------------------------------------------------------------
InitTableTwice ==
    /\ rows \in SeqsUpTo(Rows, MaxRowsTwice)
    /\ extracted = NotExtracted
    /\ clock = MaxUploadedAt
    /\ extractedAgain = NotExtracted
    /\ OthersTableIdle

\* time passes
Tick ==
    /\ clock < MaxClock
    /\ clock' = clock + 1
    /\ UNCHANGED << rows, extracted, extractedAgain >>
    /\ OthersTableUnchanged

ExtractTorrentTableAgain ==
    /\ extracted.called
    /\ ~extractedAgain.called
    /\ extractedAgain' = _extract_torrent_table(rows)
    /\ UNCHANGED << rows, extracted, clock >>
    /\ OthersTableUnchanged

NextTableTwice == ExtractTorrentTable \/ Tick \/ ExtractTorrentTableAgain
SpecTableTwice == InitTableTwice /\ [][NextTableTwice]_vars

WellFormed(row) == row.img = "ok" /\ row.span = "ok" /\ row.link = "ok"
RECURSIVE WellFormedRows(_)
WellFormedRows(rs) ==
    IF rs = << >> THEN << >>
    ELSE (IF WellFormed(Head(rs)) THEN << Head(rs) >> ELSE << >>) \o WellFormedRows(Tail(rs))

\* C10: a structural failure in one row is fatal to that row only: the call
\* returns the records of all other rows, before and after the malformed one.
C10_MalformedRowOnlySkipsItself ==
    extracted.called =>
        /\ extracted.raised = ""
        /\ LET good == WellFormedRows(rows)
           IN  extracted.torrents = [i \in DOMAIN good |-> TorrentInfoOf(good[i])]

\* ------------------------------------------------------------------------
\* C4, C5
\* ------------------------------------------------------------------------
\* the name starts with a tag [site-id] whose id is a positive decimal number
HasPositiveTag(n, s) ==
    \E k \in 1..Len(n) :
        /\ n[k] = "]"
        /\ \E h \in 2..(k - 2) :
            /\ n[1] = "["
            /\ n[h + 1] = "-"
            /\ LET st == SubSeq(n, 2, h)
                   id == SubSeq(n, h + 2, k - 1)
               IN  /\ \A i \in DOMAIN st : st[i] \in WordChars
                   /\ (s # None => st = s[1])
                   /\ Len(id) > 0
                   /\ \A i \in DOMAIN id : id[i] \in Digits
                   /\ DigitsValue(id) > 0

\* C4: local_torrent_from returns a LocalTorrent only for a name that starts
\* with a tag [site-id] whose id is a positive integer, raises ValueError for
\* every other name, and never returns a seed_id <= 0.
C4_PositiveIdOnly ==
    identified # NotCalled =>
        /\ identified.kind \in { "LocalTorrent", "ValueError" }
        /\ (identified.kind = "LocalTorrent" <=> HasPositiveTag(name, siteArg))
        /\ (identified.kind = "LocalTorrent" => identified.seed_id > 0)

\* C5: the parser inverts the rename generator, with the site omitted and
\* with the site given.
C5_RenameRoundTrip ==
    reparsed # << NotCalled, NotCalled >> =>
        /\ reparsed[1] = LocalTorrent(info.seed_id, info.site)
        /\ reparsed[2] = LocalTorrent(info.seed_id, info.site)

C5_Witness ==
    /\ reparsed # << NotCalled, NotCalled >>
    /\ "]" \in Range(info.title)
    /\ info.seed_id >= 10
    /\ Len(info.site) = 2

\* ------------------------------------------------------------------------
\* C19
\* ------------------------------------------------------------------------
\* C19: with site = None every torrent of the client appears at most once in
\* the result of list_torrents, also with the tags of two sites and with
\* wants_all.
C19_OneEntryPerTorrent ==
    (listed.called /\ listed.site = None) =>
        \A k, l \in DOMAIN listed.torrents :
            listed.torrents[k].hash = listed.torrents[l].hash => k = l

\* ------------------------------------------------------------------------
\* C11
\* ------------------------------------------------------------------------
\* C11 as stated: two runs on the same rows, at any two times, return equal
\* record sequences, live_time included.
C11_TwoRunsEqual ==
    (extracted.called /\ extractedAgain.called) =>
        /\ extractedAgain.raised = extracted.raised
        /\ extractedAgain.torrents = extracted.torrents

AllButLiveTime(t) == [seed_id |-> t.seed_id]

\* C11 amended: the two runs raise alike and return records equal in every
\* field but live_time; the live_time of every record of the second run
\* exceeds that of the first by the time that passed between the runs.
C11_EqualButLiveTime ==
    (extracted.called /\ extractedAgain.called) =>
        /\ extractedAgain.raised = extracted.raised
        /\ Len(extractedAgain.torrents) = Len(extracted.torrents)
        /\ \A i \in DOMAIN extracted.torrents :
              /\ AllButLiveTime(extractedAgain.torrents[i]) = AllButLiveTime(extracted.torrents[i])
              /\ extractedAgain.torrents[i].live_time
                    = extracted.torrents[i].live_time + (extractedAgain.at - extracted.at)

C11_Witness ==
    /\ extracted.called
    /\ extractedAgain.called
    /\ Len(extracted.torrents) = 2
    /\ extractedAgain.at > extracted.at
    /\ extractedAgain.torrents[1].live_time > extracted.torrents[1].live_time

\* ------------------------------------------------------------------------
\* Paths: os.path.join and os.path.realpath
\* ------------------------------------------------------------------------
IsAbs(p) == p # << >> /\ p[1] = "/"

\* os.path.join(a, b): an absolute b replaces a
join(a, b) == IF IsAbs(b) THEN b ELSE a \o b

\* one component c appended to the resolved path r
Step(r, c) ==
    IF c = "." THEN r
    ELSE IF c = ".." THEN (IF Len(r) > 1 THEN SubSeq(r, 1, Len(r) - 1) ELSE r)
    ELSE IF (r \o << c >>) \in DOMAIN Symlinks THEN Symlinks[r \o << c >>]
    ELSE r \o << c >>

RECURSIVE Resolve(_, _)
Resolve(r, p) == IF p = << >> THEN r ELSE Resolve(Step(r, Head(p)), Tail(p))

\* os.path.realpath(p): absolute, without ".", ".." and symbolic links
realpath(p) == IF IsAbs(p) THEN Resolve(Root, Tail(p)) ELSE Resolve(Cwd, p)

\* ------------------------------------------------------------------------
\* Specification SpecAdd: BtClient.add_torrent
\* ------------------------------------------------------------------------
\* self.upload_limit, in MiB/s
upload_limit == 95

_get_download_dir(download_dir, torrent) ==
    IF torrent.second_category # ""
    THEN join(join(realpath(download_dir), << torrent.category >>), << torrent.second_category >>)
    ELSE join(realpath(download_dir), << torrent.category >>)

\* bool(exists) taken for isinstance(exists, LocalTorrent)
IsLocalTorrent(exists) == exists.kind = "LocalTorrent"
\* bool(exists): False is false, True and any LocalTorrent are true
bool(exists) == exists.kind # "False"

\* the save path that ignores the existing torrent
SavePathFresh(exists, download_dir, torrent) == _get_download_dir(download_dir, torrent)
\* the save path add_torrent chooses
SavePath(exists, download_dir, torrent) ==
    IF exists.kind = "LocalTorrent" THEN exists.save_path
    ELSE _get_download_dir(download_dir, torrent)

\* the torrents_add request of add_torrent
torrents_add(a) ==
    [save_path |-> SavePath(a.exists, a.download_dir, a.info),
     category |-> a.info.category,
     is_skip_checking |-> bool(a.exists),
     is_paused |-> a.paused,
     rename |-> _generate_rename(a.info),
     tags |-> << a.info.site >>,
     upload_limit |-> upload_limit * 1024 * 1024]

DownloadDirs ==
    { << "/", "d" >>, << "/", "l" >>, << "d" >>, << "/", "d", "..", "e" >>, << ".", "d" >> }
SavePaths == { << "/", "d", "a" >>, << "/", "e", "b", "s" >>, << "/", "l" >> }
AddInfos ==
    [site : Range(SITES), seed_id : { 1 }, title : { << "x" >> },
     category : { "a", "b" }, second_category : { "", "s" }]

InitAdd ==
    /\ addArgs \in [info : AddInfos, download_dir : DownloadDirs, paused : BOOLEAN,
                    exists : { ExistsFalse, ExistsTrue } \cup { ExistsLocal(p) : p \in SavePaths }]
    /\ added = << >>
    /\ OthersAddIdle

AddTorrent ==
    /\ added = << >>
    /\ added' = << torrents_add(addArgs) >>
    /\ UNCHANGED addArgs
    /\ OthersAddUnchanged

NextAdd == AddTorrent
SpecAdd == InitAdd /\ [][NextAdd]_vars

\* ------------------------------------------------------------------------
\* C12, C13
\* ------------------------------------------------------------------------
\* C12: with exists a LocalTorrent the torrent is added with that torrent's
\* save_path; with exists false it is added to the directory of its category
\* and second category under the real path of download_dir.
C12_SavePath ==
    \A i \in DOMAIN added :
        /\ addArgs.exists.kind = "LocalTorrent" => added[i].save_path = addArgs.exists.save_path
        /\ addArgs.exists.kind = "False" =>
              /\ IsAbs(added[i].save_path)
              /\ added[i].save_path =
                    realpath(addArgs.download_dir) \o << addArgs.info.category >>
                        \o (IF addArgs.info.second_category = "" THEN << >>
                            ELSE << addArgs.info.second_category >>)

C12_Witness ==
    /\ added # << >>
    /\ addArgs.exists.kind = "LocalTorrent"
    /\ added[1].save_path # _get_download_dir(addArgs.download_dir, addArgs.info)

\* C13 as stated: no add request, reuse or fresh, is sent with the hash
\* check skipped.
C13_NeverSkipsHashCheck ==
    \A i \in DOMAIN added : ~added[i].is_skip_checking

\* C13 amended: the add request skips the hash check exactly when existing
\* data is reused (exists is a LocalTorrent or True); a fresh add never skips
\* it.
C13_SkipsHashCheckIffReuse ==
    \A i \in DOMAIN added :
        added[i].is_skip_checking <=> addArgs.exists.kind \in { "LocalTorrent", "True" }

C13_Witness ==
    /\ added # << >>
    /\ addArgs.exists.kind = "True"
    /\ added[1].is_skip_checking

\* ------------------------------------------------------------------------
\* Specification SpecGet: ByrClient.get
\* ------------------------------------------------------------------------
\* the status codes the site answers with
StatusCodes == { 200, 302, 404, 500 }

\* get waits after every failed attempt
SleepsAlways(i, retries) == TRUE
\* get waits after a failed attempt unless it was the last one
SleepsAfter(i, retries) == i # retries - 1

InitGet == IdleGet /\ OthersGetIdle

\* get(path, retries) is called
Get ==
    /\ getRetries = None
    /\ \E retries \in (0 - 1)..MaxRetries : getRetries' = Some(retries)
    /\ UNCHANGED << getI, statuses, slept, getOutcome >>
    /\ OthersGetUnchanged

\* one iteration of the loop over range(retries)
Attempt ==
    /\ getRetries # None
    /\ getOutcome = ""
    /\ getI < getRetries[1]
    /\ \E status \in StatusCodes :
         /\ statuses' = Append(statuses, status)
         /\ IF status = 200
            THEN /\ getOutcome' = "returned"
                 /\ slept' = Append(slept, FALSE)
                 /\ UNCHANGED getI
            ELSE /\ slept' = Append(slept, SleepsAfter(getI, getRetries[1]))
                 /\ getI' = getI + 1
                 /\ UNCHANGED getOutcome
    /\ UNCHANGED getRetries
    /\ OthersGetUnchanged

\* the loop is over: raise ConnectionError
Exhausted ==
    /\ getRetries # None
    /\ getOutcome = ""
    /\ getI >= getRetries[1]
    /\ getOutcome' = "ConnectionError"
    /\ UNCHANGED << getRetries, getI, statuses, slept >>
    /\ OthersGetUnchanged

NextGet == Get \/ Attempt \/ Exhausted
SpecGet == InitGet /\ [][NextGet]_vars

\* ------------------------------------------------------------------------
\* C16
\* ------------------------------------------------------------------------
\* the number of requests get may send
Allowed == IF getRetries[1] > 0 THEN getRetries[1] ELSE 0

\* C16: get sends at most `retries` requests, returns the first response
\* with status 200 and sends nothing after it, waits between attempts but not
\* after the last one, and raises ConnectionError exactly when all `retries`
\* attempts failed (with retries = 0 no request is sent).
C16_RetryPolicy ==
    getRetries # None =>
        /\ Len(statuses) <= Allowed
        /\ \A j \in 1..(Len(statuses) - 1) : statuses[j] # 200
        /\ getOutcome = "returned" <=> (statuses # << >> /\ statuses[Len(statuses)] = 200)
        /\ \A j \in DOMAIN statuses : slept[j] <=> (statuses[j] # 200 /\ j < Allowed)
        /\ getOutcome = "ConnectionError" =>
              /\ Len(statuses) = Allowed
              /\ \A j \in DOMAIN statuses : statuses[j] # 200
        /\ (getOutcome = "" /\ Len(statuses) = Allowed) => ENABLED Exhausted

C16_Witness ==
    /\ getOutcome = "ConnectionError"
    /\ getRetries = Some(MaxRetries)
    /\ Len(statuses) = MaxRetries
    /\ slept[1]
    /\ ~slept[MaxRetries]

\* ------------------------------------------------------------------------
\* Specification SpecCat: BtClient.init_categories
\* ------------------------------------------------------------------------
CategoryNames == { "a", "b", "c" }
\* the directory of the categories the client had from the start
OldDir == << "/", "old" >>

\* the loop creating every category it is given
SkipsNone(category, names) == FALSE
\* the loop skips the categories of the snapshot
Skips(category, names) == category \in names

InitCat ==
    /\ \E names \in SUBSET CategoryNames :
         /\ clientCategories = [c \in names |-> OldDir]
         /\ initialCategories = [c \in names |-> OldDir]
    /\ catPc = "idle"
    /\ existing = {}
    /\ catDir = << >>
    /\ catArgs = [download_dir |-> << >>, categories |-> << >>]
    /\ catPending = << >>
    /\ catLog = << >>
    /\ catCalls = 0
    /\ OthersCatIdle

\* init_categories(download_dir, categories) is called
InitCategories ==
    /\ catPc = "idle"
    /\ catCalls < MaxCatCalls
    /\ \E dir \in DownloadDirs, categories \in SeqsUpTo(CategoryNames, MaxCategories) :
         /\ catArgs' = [download_dir |-> dir, categories |-> categories]
         /\ catDir' = dir
         /\ catPending' = categories
         /\ catPc' = IF categories = << >> THEN "idle" ELSE "loop"
    /\ existing' = DOMAIN clientCategories
    /\ catLog' = << >>
    /\ catCalls' = catCalls + 1
    /\ UNCHANGED << clientCategories, initialCategories >>
    /\ OthersCatUnchanged

\* one iteration of the loop over categories; the client refuses to create a
\* category it already has (409 Conflict), which ends the call
CategoryStep ==
    /\ catPc = "loop"
    /\ catPending # << >>
    /\ LET category == Head(catPending)
           dir == join(realpath(catDir), << category >>)
           conflict == category \in DOMAIN clientCategories
       IN  IF Skips(category, existing)
           THEN /\ catPending' = Tail(catPending)
                /\ catPc' = IF Tail(catPending) = << >> THEN "idle" ELSE "loop"
                /\ UNCHANGED << catDir, clientCategories, catLog >>
           ELSE /\ catDir' = dir
                /\ catLog' = Append(catLog, [category |-> category, torrent_dir |-> dir,
                                             conflict |-> conflict])
                /\ clientCategories' =
                      IF conflict THEN clientCategories
                      ELSE (category :> dir) @@ clientCategories
                /\ catPending' = IF conflict THEN << >> ELSE Tail(catPending)
                /\ catPc' = IF conflict \/ Tail(catPending) = << >> THEN "idle" ELSE "loop"
    /\ UNCHANGED << initialCategories, existing, catArgs, catCalls >>
    /\ OthersCatUnchanged

NextCat == InitCategories \/ CategoryStep
SpecCat == InitCat /\ [][NextCat]_vars

\* ------------------------------------------------------------------------
\* C17, C18
\* ------------------------------------------------------------------------
\* C17: no create call is issued for a category the client had when
\* init_categories was called, and after any sequence of calls every
\* category the client had at the start keeps its directory.
C17_ExistingCategoriesUntouched ==
    /\ \A i \in DOMAIN catLog : catLog[i].category \notin existing
    /\ \A c \in DOMAIN initialCategories :
          /\ c \in DOMAIN clientCategories
          /\ clientCategories[c] = initialCategories[c]

\* the second call names a category the client had from the start and one
\* the first call created: it creates nothing
C17_Witness ==
    /\ catPc = "idle"
    /\ catCalls = 2
    /\ Len(catArgs.categories) = 2
    /\ catArgs.categories[1] \in DOMAIN initialCategories
    /\ catArgs.categories[2] \in existing \ DOMAIN initialCategories
    /\ clientCategories[catArgs.categories[2]] # OldDir
    /\ catLog = << >>

\* C18: every category init_categories creates, whatever its position in
\* the list, gets the directory realpath(download_dir)/category of the
\* caller's download_dir, the one _get_download_dir uses for that category.
C18_CategoryDirectory ==
    \A i \in DOMAIN catLog :
        /\ catLog[i].torrent_dir = realpath(catArgs.download_dir) \o << catLog[i].category >>
        /\ catLog[i].torrent_dir =
              _get_download_dir(catArgs.download_dir,
                                [category |-> catLog[i].category, second_category |-> ""])

\* ------------------------------------------------------------------------
\* Specification SpecUser: ByrApi.current_user_id and ByrApi.user_info
\* ------------------------------------------------------------------------
Apis == 1..NumApis
UserIds == 0..MaxUserId

\* the text the info bar uses for "connectable" (the site writes it in Chinese)
Yes == "y"

RECURSIVE lstrip(_)
lstrip(s) == IF s # << >> /\ Head(s) = " " THEN lstrip(Tail(s)) ELSE s
RECURSIVE rstrip(_)
rstrip(s) ==
    IF s # << >> /\ s[Len(s)] = " " THEN rstrip(SubSeq(s, 1, Len(s) - 1)) ELSE s
strip(s) == rstrip(lstrip(s))
isdigit(s) == s # << >> /\ \A i \in DOMAIN s : s[i] \in Digits

\* the info bar of a page: the ranking tag and the text after it, the texts
\* after the two arrows and the text of the green font, each of which may
\* be missing
InfoBar(ranking, up_arrow, down_arrow, green) ==
    [ranking_tag |-> ranking # << >>, ranking |-> ranking, up_arrow |-> up_arrow,
     down_arrow |-> down_arrow, green |-> green]
InfoBars ==
    { InfoBar(<< >>, None, None, None),
      InfoBar(<< >>, Some(<< "3" >>), Some(<< "2", " " >>), Some(<< Yes >>)),
      InfoBar(<< "7" >>, Some(<< "3" >>), Some(<< "2", " " >>), Some(<< Yes >>)),
      InfoBar(<< " ", "7" >>, None, None, Some(<< "n" >>)),
      InfoBar(<< "-" >>, Some(<< "x" >>), Some(<< "2", " " >>), None),
      InfoBar(<< "7" >>, Some(<< "3" >>), None, Some(<< "n", Yes >>)) }

\* attribute lookup self._user_id: the instance's own attribute when it has
\* one, the class's otherwise
ReadUserId(ids, self) ==
    IF ids.inst[self] # None THEN ids.inst[self][1] ELSE ids.class

\* the assignment made on the class, where every instance reads it
SetUserIdOnClass(ids, self, user_id) == [ids EXCEPT !.class = user_id]
\* the assignment self._user_id = user_id
SetUserId(ids, self, user_id) == [ids EXCEPT !.inst[self] = Some(user_id)]

\* current_user_id on the attributes ids, the front page linking to pageId;
\* fetched counts the front pages it got
current_user_id(ids, self, pageId) ==
    IF ReadUserId(ids, self) # 0
    THEN [ids |-> ids, user_id |-> ReadUserId(ids, self), fetched |-> 0]
    ELSE [ids |-> SetUserId(ids, self, pageId), user_id |-> pageId, fetched |-> 1]

\* the test made on every profile
IsCurrentUserAlways(user_id, current) == TRUE
\* the test user_id == self.current_user_id()
IsCurrentUser(user_id, current) == user_id = current

\* _extract_info_bar raises StopIteration when no ranking tag is found
InfoBarRaises(page) == ~page.ranking_tag

_extract_info_bar(user, page) ==
    LET ranking == strip(page.ranking)
        seeding == strip(IF page.up_arrow = None THEN << "0" >> ELSE page.up_arrow[1])
        downloading == strip(IF page.down_arrow = None THEN << "0" >> ELSE page.down_arrow[1])
    IN  [user EXCEPT
            !.ranking = IF isdigit(ranking) THEN Some(DigitsValue(ranking)) ELSE @,
            !.seeding = IF isdigit(seeding) THEN DigitsValue(seeding) ELSE @,
            !.downloading = IF isdigit(downloading) THEN DigitsValue(downloading) ELSE @,
            !.connectable = page.green # None /\ Yes \in Range(page.green[1])]

\* what a current_user_id call tells about the instance's resolved id
Resolve1(before, user_id) ==
    IF before = None /\ user_id # 0 THEN Some(user_id) ELSE before

InitUser ==
    /\ accountId \in [Apis -> UserIds]
    /\ userIds = [class |-> 0, inst |-> [a \in Apis |-> None]]
    /\ resolved = [a \in Apis |-> None]
    /\ lastCall = NoCall
    /\ OthersUserIdle

\* api.current_user_id()
CurrentUserId ==
    /\ \E self \in Apis :
         LET r == current_user_id(userIds, self, accountId[self])
         IN  /\ userIds' = r.ids
             /\ resolved' = [resolved EXCEPT ![self] = Resolve1(@, r.user_id)]
             /\ lastCall' = [NoCall EXCEPT !.op = "current_user_id", !.inst = self,
                                !.resolvedBefore = resolved[self],
                                !.fetched = r.fetched, !.current = r.user_id]
    /\ UNCHANGED accountId
    /\ OthersUserUnchanged

\* api.user_info(user_id), the profile page carrying the info bar page
UserInfo ==
    /\ \E self \in Apis, user_id \in UserIds, page \in InfoBars :
         LET r1 == IF user_id = 0
                   THEN current_user_id(userIds, self, accountId[self])
                   ELSE [ids |-> userIds, user_id |-> user_id, fetched |-> 0]
             r2 == current_user_id(r1.ids, self, accountId[self])
             parsed == IsCurrentUser(r1.user_id, r2.user_id)
             raised == parsed /\ InfoBarRaises(page)
             user == IF parsed /\ ~raised
                     THEN _extract_info_bar(ByrUser(r1.user_id), page)
                     ELSE ByrUser(r1.user_id)
         IN  /\ userIds' = r2.ids
             /\ resolved' =
                   [resolved EXCEPT ![self] =
                       Resolve1(IF user_id = 0 THEN Resolve1(@, r1.user_id) ELSE @,
                                r2.user_id)]
             /\ lastCall' = [op |-> "user_info", inst |-> self, user_id |-> user_id,
                             page |-> page, resolvedBefore |-> resolved[self],
                             fetched |-> r1.fetched + r2.fetched, current |-> r2.user_id,
                             parsed |-> parsed, raised |-> raised, user |-> user]
    /\ UNCHANGED accountId
    /\ OthersUserUnchanged

NextUser == CurrentUserId \/ UserInfo
SpecUser == InitUser /\ [][NextUser]_vars

\* ------------------------------------------------------------------------
\* C14, C15
\* ------------------------------------------------------------------------
\* the user a user_info call asks for: 0 stands for the current user
RequestedUser(call) ==
    IF call.user_id = 0 THEN accountId[call.inst] ELSE call.user_id

\* C14: user_info parses the info bar exactly when the requested user is
\* the current logged-in user; for any other user the ranking, seeding,
\* downloading and connectable fields keep their defaults whatever the
\* page's info bar contains.
C14_InfoBarOnlyForCurrentUser ==
    lastCall.op = "user_info" =>
        LET current == accountId[lastCall.inst]
            user == lastCall.user
            page == lastCall.page
        IN  /\ lastCall.parsed <=> RequestedUser(lastCall) = current
            /\ RequestedUser(lastCall) # current =>
                  /\ ~lastCall.raised
                  /\ user.ranking = None
                  /\ user.seeding = 0
                  /\ user.downloading = 0
                  /\ user.connectable = FALSE
            /\ RequestedUser(lastCall) = current /\ ~lastCall.raised =>
                  /\ page.ranking \in { << "7" >>, << " ", "7" >> } => user.ranking = Some(7)
                  /\ page.up_arrow = Some(<< "3" >>) => user.seeding = 3
                  /\ page.down_arrow # None => user.downloading = 2
                  /\ user.connectable <=> page.green \in { Some(<< Yes >>), Some(<< "n", Yes >>) }

\* another user's profile whose page carries a full info bar
C14_Witness ==
    /\ lastCall.op = "user_info"
    /\ lastCall.user_id # 0
    /\ lastCall.user_id # accountId[lastCall.inst]
    /\ lastCall.page = InfoBar(<< "7" >>, Some(<< "3" >>), Some(<< "2", " " >>), Some(<< Yes >>))
    /\ lastCall.user = ByrUser(lastCall.user_id)

\* C15: once a current_user_id call of an instance has returned a non-zero
\* id, every later call of that instance, those inside user_info included,
\* returns that id and fetches no page; an instance that has not resolved
\* its id fetches its own front page and returns the id found there,
\* whatever the other instances hold.
C15_ResolvedOncePerInstance ==
    lastCall.op # "none" =>
        /\ lastCall.resolvedBefore # None =>
              /\ lastCall.fetched = 0
              /\ lastCall.current = lastCall.resolvedBefore[1]
        /\ lastCall.resolvedBefore = None =>
              /\ lastCall.fetched >= 1
              /\ lastCall.current = accountId[lastCall.inst]
              /\ accountId[lastCall.inst] # 0 => lastCall.fetched = 1

\* a user_info call of an instance that had resolved its id, another
\* instance holding a different id
C15_Witness ==
    /\ lastCall.op = "user_info"
    /\ lastCall.user_id = 0
    /\ lastCall.resolvedBefore # None
    /\ lastCall.fetched = 0
    /\ \E other \in Apis :
          /\ other # lastCall.inst
          /\ resolved[other] # None
          /\ resolved[other] # lastCall.resolvedBefore

\* ------------------------------------------------------------------------
\* Specification SpecLogin: ByrClient.login
\* ------------------------------------------------------------------------
Usernames == { "u", "v" }
SessionCookies == 1..MaxCookie

\* what pickle.load finds in the file: something it cannot load, an object
\* that is no dict, or a dict with some of the keys username and cookies
Corrupt == [kind |-> "corrupt", keys |-> {}, username |-> "", cookies |-> 0]
NotDict == [kind |-> "notdict", keys |-> {}, username |-> "", cookies |-> 0]
Dict(keys, who, cookies) ==
    [kind |-> "dict", keys |-> keys,
     username |-> IF "username" \in keys THEN who ELSE "",
     cookies |-> IF "cookies" \in keys THEN cookies ELSE 0]
CookieFiles ==
    { None, Some(Corrupt), Some(NotDict) }
    \cup { Some(Dict(keys, who, cookies)) :
             keys \in SUBSET { "username", "cookies" }, who \in Usernames,
             cookies \in 0..MaxCookie }

\* the answers of the site to an authorization: the login page cannot be
\* got, or takelogin.php answers with a status and, on 302, a session cookie
Responses ==
    { [reachable |-> FALSE, status_code |-> 0, cookie |-> 0] }
    \cup { [reachable |-> TRUE, status_code |-> s, cookie |-> 0] : s \in { 200, 403 } }
    \cup { [reachable |-> TRUE, status_code |-> 302, cookie |-> c] : c \in SessionCookies }

\* is_logged_in with the session cookie c
is_logged_in(c, sessions) == c \in sessions

\* _update_session_from_cache: what it returns ("raise" when pickle.load
\* raises) and the session cookie it leaves
_update_session_from_cache(file, who, c, sessions) ==
    IF file = None THEN [ok |-> "False", session |-> c]
    ELSE IF file[1].kind = "corrupt" THEN [ok |-> "raise", session |-> c]
    ELSE IF file[1].kind # "dict" \/ { "username", "cookies" } \ file[1].keys # {}
    THEN [ok |-> "False", session |-> c]
    ELSE IF file[1].username # who THEN [ok |-> "False", session |-> c]
    ELSE [ok |-> IF is_logged_in(file[1].cookies, sessions) THEN "True" ELSE "False",
          session |-> file[1].cookies]

\* an authorization that is taken to succeed whatever the site answers
AuthorizedAlways(response) == TRUE
\* _authorize_session returns only on a 302 of takelogin.php
Authorized(response) == response.reachable /\ response.status_code = 302

\* _cache_session: the dict written to the file
_cache_session(who, c) == Some(Dict({ "username", "cookies" }, who, c))

LoginResult(cache, response, authorized, wrote, outcome) ==
    [called |-> TRUE, cache |-> cache, response |-> response, fileBefore |-> cookie_file,
     liveBefore |-> live, authorized |-> authorized, wrote |-> wrote, outcome |-> outcome]

InitLogin ==
    /\ username \in Usernames
    /\ cookie_file \in CookieFiles
    /\ session = 0
    /\ live \in SUBSET SessionCookies
    /\ lastLogin = NoLogin
    /\ OthersLoginIdle

\* client.login(cache), the site answering an authorization with response
Login ==
    /\ \E cache \in BOOLEAN, response \in Responses :
         LET cached == _update_session_from_cache(cookie_file, username, session, live)
         IN  IF cache /\ cached.ok = "raise"
             THEN /\ lastLogin' = LoginResult(cache, NoResponse, 0, 0, "UnpicklingError")
                  /\ UNCHANGED << cookie_file, session, live >>
             ELSE IF cache /\ cached.ok = "True"
             THEN /\ session' = cached.session
                  /\ lastLogin' = LoginResult(cache, NoResponse, 0, 0, "returned")
                  /\ UNCHANGED << cookie_file, live >>
             ELSE IF Authorized(response)
             THEN /\ session' = response.cookie
                  /\ live' = (live \cup { response.cookie }) \ { 0 }
                  /\ cookie_file' = _cache_session(username, response.cookie)
                  /\ lastLogin' = LoginResult(cache, response, 1, 1, "returned")
             ELSE /\ session' = 0
                  /\ lastLogin' = LoginResult(cache, response, 1, 0, "ConnectionError")
                  /\ UNCHANGED << cookie_file, live >>
    /\ UNCHANGED username
    /\ OthersLoginUnchanged

\* the site ends a session
Expire ==
    /\ \E c \in live : live' = live \ { c }
    /\ UNCHANGED << username, cookie_file, session, lastLogin >>
    /\ OthersLoginUnchanged

\* ByrClient(username, password) on the same cookie file
NewClient ==
    /\ \E who \in Usernames \ { username } : username' = who
    /\ session' = 0
    /\ lastLogin' = NoLogin
    /\ UNCHANGED << cookie_file, live >>
    /\ OthersLoginUnchanged

NextLogin == Login \/ Expire \/ NewClient
SpecLogin == InitLogin /\ [][NextLogin]_vars

\* ------------------------------------------------------------------------
\* C20
\* ------------------------------------------------------------------------
\* the cache file f is well formed, of the user who and of a live session
UsableCache(f, who, sessions) ==
    /\ f # None
    /\ f[1].kind = "dict"
    /\ f[1].keys = { "username", "cookies" }
    /\ f[1].username = who
    /\ f[1].cookies \in sessions

\* C20: login writes the cookie cache only after an authorization that
\* succeeded: with a usable cache login(cache=True) neither authorizes nor
\* rewrites the file; an authorization the site does not answer with 302
\* raises ConnectionError and leaves the file as it was; after a login that
\* returned the file holds the client's username.
C20_CacheWrittenAfterAuthorization ==
    lastLogin.called =>
        /\ lastLogin.wrote = 1 =>
              /\ lastLogin.authorized = 1
              /\ lastLogin.response.status_code = 302
        /\ lastLogin.cache /\ UsableCache(lastLogin.fileBefore, username, lastLogin.liveBefore) =>
              /\ lastLogin.authorized = 0
              /\ lastLogin.wrote = 0
              /\ cookie_file = lastLogin.fileBefore
              /\ lastLogin.outcome = "returned"
        /\ lastLogin.authorized = 1 /\ lastLogin.response.status_code # 302 =>
              /\ lastLogin.outcome = "ConnectionError"
              /\ lastLogin.wrote = 0
              /\ cookie_file = lastLogin.fileBefore
        /\ lastLogin.outcome = "returned" =>
              /\ cookie_file # None
              /\ cookie_file[1].kind = "dict"
              /\ cookie_file[1].username = username

\* a refused authorization on a cache file of another user, which stays
C20_Witness ==
    /\ lastLogin.called
    /\ lastLogin.cache
    /\ lastLogin.authorized = 1
    /\ lastLogin.response.reachable
    /\ lastLogin.response.status_code = 403
    /\ lastLogin.outcome = "ConnectionError"
    /\ cookie_file # None
    /\ cookie_file[1].kind = "dict"
    /\ cookie_file[1].keys = { "username", "cookies" }
    /\ cookie_file[1].username # username

\* ------------------------------------------------------------------------
\* Specification SpecVersion: the version gate of BtClient.__init__
\* ------------------------------------------------------------------------
\* the code points of the characters of a version string
Ord(c) ==
    IF c = "." THEN 46
    ELSE IF c \in Digits THEN 48 + DigitVal(c)
    ELSE 118

\* Python's a < b on strings: the first differing character decides, and a
\* proper prefix is the smaller one
RECURSIVE StrLess(_, _)
StrLess(a, b) ==
    IF b = << >> THEN FALSE
    ELSE IF a = << >> THEN TRUE
    ELSE IF Head(a) = Head(b) THEN StrLess(Tail(a), Tail(b))
    ELSE Ord(Head(a)) < Ord(Head(b))

\* the string qBittorrent reports for the version major.minor.patch
VersionString(parts) ==
    << "v" >> \o str(parts[1]) \o << "." >> \o str(parts[2]) \o << "." >> \o str(parts[3])

\* the literal "v4.5.2" the constructor compares with
MinVersion == << "v", "4", ".", "5", ".", "2" >>

\* self.client.app.version < "v4.5.2"
TooOld(version) == StrLess(version, MinVersion)

VersionParts == 0..MaxVersionPart

InitVersion ==
    /\ appParts \in VersionParts \X VersionParts \X VersionParts
    /\ appVersion = VersionString(appParts)
    /\ gate = "none"
    /\ OthersVersionIdle

\* BtClient(url): logs in and checks the version
BtClientInit ==
    /\ gate = "none"
    /\ gate' = IF TooOld(appVersion) THEN "ConnectionError" ELSE "constructed"
    /\ UNCHANGED << appParts, appVersion >>
    /\ OthersVersionUnchanged

NextVersion == BtClientInit
SpecVersion == InitVersion /\ [][NextVersion]_vars

\* ------------------------------------------------------------------------
\* C21
\* ------------------------------------------------------------------------
\* numeric version order: the first differing part decides
NumericallyBelow(parts, least) ==
    \/ parts[1] < least[1]
    \/ parts[1] = least[1] /\ parts[2] < least[2]
    \/ parts[1] = least[1] /\ parts[2] = least[2] /\ parts[3] < least[3]

\* C21: the constructor raises ConnectionError exactly for the versions
\* numerically below 4.5.2 and accepts every version at or above it.
C21_NumericVersionGate ==
    gate # "none" =>
        (gate = "ConnectionError" <=> NumericallyBelow(appParts, << 4, 5, 2 >>))

====
